---- MODULE Spec2Model ----
(***************************************************************************)
(* The Set layer of the storage engine (src/storage/src/redis_sets.cc):    *)
(* a meta column family (one MetaValue per encoded user key) and a member  *)
(* column family (one record per (user key, version, member)), with the    *)
(* Set commands as operations on them.                                     *)
(***************************************************************************)
EXTENDS Integers, Sequences, FiniteSets, TLC

(* ------------------------------ bounds -------------------------------- *)

\* Longest member list passed to SADD / SREM.
MaxArgs == 2
\* The clock runs from 1 to MaxTime.
MaxTime == 2
\* No operation allocates a version above MaxVersion.
MaxVersion == 3
\* No operation raises a count above MaxCount.
MaxCount == 3
\* Spec makes at most MaxSteps calls.
MaxSteps == 4
\* Longest key list passed to SDIFF, SINTER, SUNION and their STORE forms.
MaxKeys == 2
\* Largest cursor SSCAN hands out.
MaxCursor == 3

\* User keys and members, each in the store's byte order.
KeyOrder == <<"k1", "k2">>
MemberOrder == <<"a", "b">>

Range(f) == {f[i] : i \in DOMAIN f}
Keys == Range(KeyOrder)
Members == Range(MemberOrder)
Rank(order, x) == CHOOSE i \in DOMAIN order : order[i] = x

SeqsUpTo(S, n) == UNION {[1..i -> S] : i \in 1..n}
MemberLists == SeqsUpTo(Members, MaxArgs)

(* ------------------------------- codec -------------------------------- *)

Int32Max == 2147483647

\* BaseMetaKey(key).Encode(): the user key wrapped in the reserved fields.
BaseMetaKeyEncode(key) == <<"meta", key>>
\* A Slice of the user key's own bytes, not encoded.
RawSlice(key) == <<"raw", key>>
MetaSlots == {BaseMetaKeyEncode(k) : k \in Keys} \cup {RawSlice(k) : k \in Keys}

\* SetsMemberKey(key, version, member).Encode()
SetsMemberKeyEncode(key, version, member) == <<key, version, member>>

\* The value db_->Get leaves untouched when the key is not found.
NoMeta == [type |-> "None", count |-> 0, version |-> 0, etime |-> 0]

ExpectedMetaValue(mv) == mv.type = "Set"
IsStale(mv, t) == mv.etime # 0 /\ mv.etime <= t
UpdateVersion(version, t) == IF version >= t THEN version + 1 ELSE t
InitialMetaValue(mv, t) ==
  [mv EXCEPT !.count = 0, !.etime = 0, !.version = UpdateVersion(mv.version, t)]
\* SetsMetaValue(kSets, count) followed by UpdateVersion()
FreshMetaValue(count, t) ==
  [type |-> "Set", count |-> count, version |-> UpdateVersion(0, t), etime |-> 0]
check_set_count(n) == n <= Int32Max
\* count + delta within [0, Int32Max], computed in 64 bits: written so that
\* no intermediate value leaves the 32-bit range.
CheckModifyCount(mv, delta) == delta >= 0 - mv.count /\ delta <= Int32Max - mv.count
ModifyCount(mv, delta) == [mv EXCEPT !.count = mv.count + delta]

(* ---------------------------- write batch ------------------------------ *)

PutMeta(slot, mv) == [cf |-> "meta", op |-> "Put", key |-> slot, val |-> mv]
DeleteMeta(slot) == [cf |-> "meta", op |-> "Delete", key |-> slot, val |-> NoMeta]
PutData(dk) == [cf |-> "data", op |-> "Put", key |-> dk, val |-> NoMeta]
DeleteData(dk) == [cf |-> "data", op |-> "Delete", key |-> dk, val |-> NoMeta]

WriteMeta(mcf, w) ==
  IF w.cf # "meta" THEN mcf
  ELSE [mcf EXCEPT ![w.key] = IF w.op = "Put" THEN w.val ELSE NoMeta]
WriteData(dcf, w) ==
  IF w.cf # "data" THEN dcf
  ELSE IF w.op = "Put" THEN dcf \cup {w.key} ELSE dcf \ {w.key}

RECURSIVE CommitMeta(_, _)
CommitMeta(mcf, batch) ==
  IF batch = <<>> THEN mcf ELSE CommitMeta(WriteMeta(mcf, Head(batch)), Tail(batch))
RECURSIVE CommitData(_, _)
CommitData(dcf, batch) ==
  IF batch = <<>> THEN dcf ELSE CommitData(WriteData(dcf, Head(batch)), Tail(batch))

(* ------------------------------ iteration ------------------------------ *)

\* The members stored under the prefix (key, version).
PrefixMembers(dcf, key, version) ==
  {m \in Members : SetsMemberKeyEncode(key, version, m) \in dcf}

\* A set of members as the iterator yields them: in byte order.
RECURSIVE InOrderFrom(_, _)
InOrderFrom(S, i) ==
  IF i > Len(MemberOrder) THEN <<>>
  ELSE (IF MemberOrder[i] \in S THEN <<MemberOrder[i]>> ELSE <<>>) \o InOrderFrom(S, i + 1)
InOrder(S) == InOrderFrom(S, 1)

\* What an operation hands back: its Status, *ret, the members it returns and
\* the writes it commits.
NoRet == -1
Result(status, ret, out, batch) ==
  [status |-> status, ret |-> ret, out |-> out, batch |-> batch]

(* -------------------------------- SADD --------------------------------- *)

RECURSIVE Dedup(_, _)
Dedup(members, seen) ==
  IF members = <<>> THEN <<>>
  ELSE IF Head(members) \in seen THEN Dedup(Tail(members), seen)
  ELSE <<Head(members)>> \o Dedup(Tail(members), seen \cup {Head(members)})

PutMembers(key, version, members) ==
  [i \in 1..Len(members) |-> PutData(SetsMemberKeyEncode(key, version, members[i]))]

SAddAsNewKey(mcf, dcf, t, key, members) ==
  LET fresh == FreshMetaValue(Len(Dedup(members, {})), t)
  IN  Result("OK", Len(Dedup(members, {})), <<>>,
             <<PutMeta(BaseMetaKeyEncode(key), fresh)>>
             \o PutMembers(key, fresh.version, Dedup(members, {})))
SAdd(mcf, dcf, t, key, members) ==
  LET filtered == Dedup(members, {})
      slot == BaseMetaKeyEncode(key)
      mv == mcf[slot]
      found == mv.type # "None"
      wrong == found /\ ~ExpectedMetaValue(mv)
  IN  IF wrong /\ ~IsStale(mv, t) THEN Result("WRONGTYPE", NoRet, <<>>, <<>>)
      ELSE IF found /\ ~wrong THEN
        IF IsStale(mv, t) \/ mv.count = 0 THEN
          LET init == InitialMetaValue(mv, t)
          IN  IF ~check_set_count(Len(filtered))
              THEN Result("set size overflow", NoRet, <<>>, <<>>)
              ELSE Result("OK", Len(filtered), <<>>,
                          <<PutMeta(slot, [init EXCEPT !.count = Len(filtered)])>>
                          \o PutMembers(key, init.version, filtered))
        ELSE
          LET missing == SelectSeq(filtered,
                 LAMBDA m : SetsMemberKeyEncode(key, mv.version, m) \notin dcf)
              cnt == Len(missing)
          IN  IF cnt = 0 THEN Result("OK", 0, <<>>, <<>>)
              ELSE IF ~CheckModifyCount(mv, cnt)
              THEN Result("set size overflow", cnt, <<>>, <<>>)
              ELSE Result("OK", cnt, <<>>,
                          PutMembers(key, mv.version, missing)
                          \o <<PutMeta(slot, ModifyCount(mv, cnt))>>)
      ELSE
        LET fresh == FreshMetaValue(Len(filtered), t)
        IN  Result("OK", Len(filtered), <<>>,
                   <<PutMeta(slot, fresh)>> \o PutMembers(key, fresh.version, filtered))

(* -------------------------------- SREM --------------------------------- *)

\* The point reads of SREM go to the store, not to the batch being built:
\* a member named twice is found twice.
SRemFindsNone(dcf, key, version, members) == <<>>
SRemFound(dcf, key, version, members) ==
  SelectSeq(members, LAMBDA m : SetsMemberKeyEncode(key, version, m) \in dcf)

\* The guard of SREM before it lowers the count by the cnt it found.
SRemUnchecked(mv, cnt) == TRUE
SRemCountCheck(mv, cnt) == CheckModifyCount(mv, -cnt)

SRem(mcf, dcf, t, key, members) ==
  LET slot == BaseMetaKeyEncode(key)
      mv == mcf[slot]
  IN  IF mv.type = "None" THEN Result("NotFound", 0, <<>>, <<>>)
      ELSE IF IsStale(mv, t) THEN Result("NotFound", 0, <<>>, <<>>)
      ELSE IF ~ExpectedMetaValue(mv) THEN Result("WRONGTYPE", 0, <<>>, <<>>)
      ELSE
        LET hit == SRemFound(dcf, key, mv.version, members)
            cnt == Len(hit)
        IN  IF ~SRemCountCheck(mv, cnt)
            THEN Result("set size overflow", cnt, <<>>, <<>>)
            ELSE Result("OK", cnt, <<>>,
                        [i \in 1..cnt |->
                           DeleteData(SetsMemberKeyEncode(key, mv.version, hit[i]))]
                        \o <<PutMeta(slot, ModifyCount(mv, -cnt))>>)

(* ----------------------------- SCARD, SMEMBERS ------------------------- *)

SCard(mcf, t, key) ==
  LET mv == mcf[BaseMetaKeyEncode(key)]
  IN  IF mv.type = "None" THEN Result("NotFound", 0, <<>>, <<>>)
      ELSE IF IsStale(mv, t) THEN Result("NotFound", 0, <<>>, <<>>)
      ELSE IF ~ExpectedMetaValue(mv) THEN Result("WRONGTYPE", 0, <<>>, <<>>)
      ELSE IF mv.count = 0 THEN Result("NotFound", 0, <<>>, <<>>)
      ELSE Result("OK", mv.count, <<>>, <<>>)

SMembersIgnoringExpiry(mcf, dcf, t, key) ==
  LET mv == mcf[BaseMetaKeyEncode(key)]
  IN  IF mv.type = "None" THEN Result("NotFound", NoRet, <<>>, <<>>)
      ELSE IF ~ExpectedMetaValue(mv) THEN Result("WRONGTYPE", NoRet, <<>>, <<>>)
      ELSE Result("OK", NoRet, InOrder(PrefixMembers(dcf, key, mv.version)), <<>>)
SMembers(mcf, dcf, t, key) ==
  LET mv == mcf[BaseMetaKeyEncode(key)]
  IN  IF mv.type = "None" THEN Result("NotFound", NoRet, <<>>, <<>>)
      ELSE IF IsStale(mv, t) THEN Result("NotFound", NoRet, <<>>, <<>>)
      ELSE IF ~ExpectedMetaValue(mv) THEN Result("WRONGTYPE", NoRet, <<>>, <<>>)
      ELSE Result("OK", NoRet, InOrder(PrefixMembers(dcf, key, mv.version)), <<>>)

(* -------------------------------- SMOVE -------------------------------- *)

\* The destination half of SMOVE: what it adds to the batch, or the error it
\* returns with.  Its reads go to the store, which the batch has not reached.
SMoveDst(mcf, dcf, t, destination, member) ==
  LET slot == BaseMetaKeyEncode(destination)
      mv == mcf[slot]
      found == mv.type # "None"
      wrong == found /\ ~ExpectedMetaValue(mv)
  IN  IF wrong /\ ~IsStale(mv, t) THEN [status |-> "WRONGTYPE", batch |-> <<>>]
      ELSE IF found /\ ~wrong THEN
        IF IsStale(mv, t) \/ mv.count = 0 THEN
          LET init == InitialMetaValue(mv, t)
          IN  [status |-> "OK",
               batch |-> <<PutMeta(slot, [init EXCEPT !.count = 1]),
                           PutData(SetsMemberKeyEncode(destination, init.version, member))>>]
        ELSE IF SetsMemberKeyEncode(destination, mv.version, member) \notin dcf THEN
          IF ~CheckModifyCount(mv, 1) THEN [status |-> "set size overflow", batch |-> <<>>]
          ELSE [status |-> "OK",
                batch |-> <<PutMeta(slot, ModifyCount(mv, 1)),
                            PutData(SetsMemberKeyEncode(destination, mv.version, member))>>]
        ELSE [status |-> "OK", batch |-> <<>>]
      ELSE
        LET fresh == FreshMetaValue(1, t)
        IN  [status |-> "OK",
             batch |-> <<PutMeta(slot, fresh),
                         PutData(SetsMemberKeyEncode(destination, fresh.version, member))>>]

SMove(mcf, dcf, t, source, destination, member) ==
  LET slot == BaseMetaKeyEncode(source)
      mv == mcf[slot]
      dk == SetsMemberKeyEncode(source, mv.version, member)
  IN  IF mv.type = "None" THEN Result("NotFound", 0, <<>>, <<>>)
      ELSE IF IsStale(mv, t) THEN Result("NotFound", 0, <<>>, <<>>)
      ELSE IF ~ExpectedMetaValue(mv) THEN Result("WRONGTYPE", 0, <<>>, <<>>)
      ELSE IF dk \notin dcf THEN Result("NotFound", 0, <<>>, <<>>)
      ELSE IF ~CheckModifyCount(mv, -1) THEN Result("set size overflow", 1, <<>>, <<>>)
      ELSE
        LET d == SMoveDst(mcf, dcf, t, destination, member)
        IN  IF d.status # "OK" THEN Result(d.status, 1, <<>>, <<>>)
            ELSE Result("OK", 1, <<>>,
                        <<PutMeta(slot, ModifyCount(mv, -1)), DeleteData(dk)>> \o d.batch)

(* --------------------------------- SPOP -------------------------------- *)

\* The member column family in iterator order: user key, then version, then
\* member.
DataKeyLess(x, y) ==
  \/ Rank(KeyOrder, x[1]) < Rank(KeyOrder, y[1])
  \/ x[1] = y[1] /\ x[2] < y[2]
  \/ x[1] = y[1] /\ x[2] = y[2] /\ Rank(MemberOrder, x[3]) < Rank(MemberOrder, y[3])

RECURSIVE Sorted(_)
Sorted(S) ==
  IF S = {} THEN <<>>
  ELSE LET x == CHOOSE x \in S : \A y \in S \ {x} : DataKeyLess(x, y)
       IN  <<x>> \o Sorted(S \ {x})

\* iter->Seek(SetsMemberKey(key, version, "").EncodeSeekKey()), then Next()
\* while Valid(): every record at or after the first position of the prefix.
SeekFrom(dcf, key, version) ==
  Sorted({dk \in dcf : (Rank(KeyOrder, dk[1]) > Rank(KeyOrder, key))
                        \/ (dk[1] = key /\ dk[2] >= version)})

FirstN(seq, n) == SubSeq(seq, 1, IF n < Len(seq) THEN n ELSE Len(seq))

\* SPOP with the positions sets_index that the random engine drew.
SPop(mcf, dcf, t, key, cnt, sets_index) ==
  LET slot == BaseMetaKeyEncode(key)
      mv == mcf[slot]
  IN  IF mv.type = "None" THEN Result("NotFound", NoRet, <<>>, <<>>)
      ELSE IF IsStale(mv, t) THEN Result("NotFound", NoRet, <<>>, <<>>)
      ELSE IF ~ExpectedMetaValue(mv) THEN Result("WRONGTYPE", NoRet, <<>>, <<>>)
      ELSE
        LET size == mv.count
            walk == FirstN(SeekFrom(dcf, key, mv.version), IF size > 0 THEN size ELSE 0)
        IN  IF size < cnt THEN
              Result("OK", NoRet, [i \in 1..Len(walk) |-> walk[i][3]],
                     [i \in 1..Len(walk) |-> DeleteData(walk[i])]
                     \o <<DeleteMeta(slot)>>)
            ELSE
              LET hit == SelectSeq([i \in 1..Len(walk) |-> [at |-> i - 1, dk |-> walk[i]]],
                                   LAMBDA e : e.at \in sets_index)
              IN  IF ~CheckModifyCount(mv, -cnt)
                  THEN Result("set size overflow", NoRet,
                              [i \in 1..Len(hit) |-> hit[i].dk[3]], <<>>)
                  ELSE Result("OK", NoRet, [i \in 1..Len(hit) |-> hit[i].dk[3]],
                              [i \in 1..Len(hit) |-> DeleteData(hit[i].dk)]
                              \o <<PutMeta(slot, ModifyCount(mv, -cnt))>>)

\* The position sets the loop over cur_round can leave in sets_index: cnt
\* distinct positions below size (none when cnt <= 0).
SPopDraws(size, cnt) ==
  IF cnt <= 0 \/ size < cnt THEN {{}}
  ELSE {S \in SUBSET (0..(size - 1)) : Cardinality(S) = cnt}

\* The iterators SPOP has created with db_->NewIterator and not deleted when
\* it returns.
SPopOpenIterators(mcf, t, key, cnt) ==
  LET mv == mcf[BaseMetaKeyEncode(key)]
  IN  IF mv.type = "None" \/ IsStale(mv, t) \/ ~ExpectedMetaValue(mv) THEN 0
      ELSE IF mv.count < cnt THEN 1 - 1
      ELSE IF ~CheckModifyCount(mv, -cnt) THEN 1
      ELSE 1 - 1

(* -------------------- SISMEMBER, SRANDMEMBER, SSCAN -------------------- *)

SIsmember(mcf, dcf, t, key, member) ==
  LET mv == mcf[BaseMetaKeyEncode(key)]
  IN  IF mv.type = "None" THEN Result("NotFound", 0, <<>>, <<>>)
      ELSE IF IsStale(mv, t) THEN Result("NotFound", 0, <<>>, <<>>)
      ELSE IF ~ExpectedMetaValue(mv) THEN Result("WRONGTYPE", 0, <<>>, <<>>)
      ELSE IF SetsMemberKeyEncode(key, mv.version, member) \in dcf
      THEN Result("OK", 1, <<>>, <<>>)
      ELSE Result("NotFound", 0, <<>>, <<>>)

\* How often position i stands in the sorted 'targets'.
TimesIn(targets, i) == Cardinality({j \in DOMAIN targets : targets[j] = i})
RECURSIVE Repeat(_, _)
Repeat(x, n) == IF n <= 0 THEN <<>> ELSE <<x>> \o Repeat(x, n - 1)
RECURSIVE EmitTargets(_, _, _)
EmitTargets(walk, targets, i) ==
  IF i > Len(walk) THEN <<>>
  ELSE Repeat(walk[i][3], TimesIn(targets, i - 1)) \o EmitTargets(walk, targets, i + 1)

\* SRANDMEMBER with the positions 'targets' the random engine drew; 'fpe'
\* when a position was drawn modulo a size of 0.  The members are listed in
\* scan order: std::shuffle permutes them.
SRandmember(mcf, dcf, t, key, count, targets, fpe) ==
  LET mv == mcf[BaseMetaKeyEncode(key)]
  IN  IF count = 0 THEN Result("OK", NoRet, <<>>, <<>>)
      ELSE IF mv.type = "None" THEN Result("NotFound", NoRet, <<>>, <<>>)
      ELSE IF IsStale(mv, t) THEN Result("NotFound", NoRet, <<>>, <<>>)
      ELSE IF ~ExpectedMetaValue(mv) THEN Result("WRONGTYPE", NoRet, <<>>, <<>>)
      ELSE IF fpe THEN Result("SIGFPE", NoRet, <<>>, <<>>)
      ELSE Result("OK", NoRet,
                  EmitTargets(FirstN(SeekFrom(dcf, key, mv.version), mv.count), targets, 1),
                  <<>>)

\* A set of positions, sorted (std::sort).
RECURSIVE InOrderOfInt(_)
InOrderOfInt(S) ==
  IF S = {} THEN <<>>
  ELSE LET x == CHOOSE x \in S : \A y \in S : x <= y
       IN  <<x>> \o InOrderOfInt(S \ {x})

\* The draws the two loops over 'targets' can end with for a Set of 'size':
\* distinct positions when count > 0, any positions when count < 0.  With
\* size 0 and count < 0 the remainder modulo zero is undefined: the division
\* traps, or it yields 0 for every position.
SRandDraws(size, count) ==
  IF count > 0 THEN
    LET n == IF count <= size THEN count ELSE size
    IN  IF n <= 0 THEN {[targets |-> <<>>, fpe |-> FALSE]}
        ELSE {[targets |-> InOrderOfInt(S), fpe |-> FALSE] :
                S \in {T \in SUBSET (0..(size - 1)) : Cardinality(T) = n}}
  ELSE IF count = 0 THEN {[targets |-> <<>>, fpe |-> FALSE]}
  ELSE IF size = 0 THEN {[targets |-> <<>>, fpe |-> TRUE],
                         [targets |-> [i \in 1..(0 - count) |-> 0], fpe |-> FALSE]}
  ELSE {[targets |-> tg, fpe |-> FALSE] :
          tg \in {x \in [1..(0 - count) -> 0..(size - 1)] :
                    \A i \in 1..(0 - count - 1) : x[i] <= x[i + 1]}}

\* SSCAN with pattern "*"; start_point is what the scan cursor store holds
\* for the cursor ("" when it holds nothing).  ret is *next_cursor.
SScan(mcf, dcf, t, key, cursor, count, start_point) ==
  LET mv == mcf[BaseMetaKeyEncode(key)]
  IN  IF cursor < 0 THEN Result("OK", 0, <<>>, <<>>)
      ELSE IF mv.type = "None" THEN Result("NotFound", 0, <<>>, <<>>)
      ELSE IF IsStale(mv, t) THEN Result("NotFound", 0, <<>>, <<>>)
      ELSE IF ~ExpectedMetaValue(mv) THEN Result("WRONGTYPE", 0, <<>>, <<>>)
      ELSE
        LET from == IF start_point = "" THEN 0 ELSE cursor
            ahead == SelectSeq(InOrder(PrefixMembers(dcf, key, mv.version)),
                               LAMBDA m : start_point = ""
                                          \/ Rank(MemberOrder, m) >= Rank(MemberOrder, start_point))
            n == IF count < 0 THEN 0 ELSE IF count < Len(ahead) THEN count ELSE Len(ahead)
        IN  Result("OK", IF n < Len(ahead) THEN from + count ELSE 0,
                   SubSeq(ahead, 1, n), <<>>)

\* Patterns and members as byte strings; the members of the model are one
\* byte long.
Bytes(member) == <<member>>
Patterns == {<<"*">>, <<"a", "*">>, <<"b", "*">>, <<"b">>, <<"?">>, <<"a", "?">>}

\* Glob matching of a whole string: '*' any run of bytes, '?' any one byte.
RECURSIVE StringMatch(_, _)
StringMatch(pattern, str) ==
  IF pattern = <<>> THEN str = <<>>
  ELSE IF Head(pattern) = "*"
  THEN StringMatch(Tail(pattern), str) \/ (str # <<>> /\ StringMatch(pattern, Tail(str)))
  ELSE IF str = <<>> THEN FALSE
  ELSE IF Head(pattern) = "?" THEN StringMatch(Tail(pattern), Tail(str))
  ELSE Head(pattern) = Head(str) /\ StringMatch(Tail(pattern), Tail(str))

\* A literal prefix of at least one byte followed by one '*'.
isTailWildcard(pattern) ==
  /\ Len(pattern) >= 2
  /\ pattern[Len(pattern)] = "*"
  /\ \A i \in 1..(Len(pattern) - 1) : pattern[i] \notin {"*", "?", "[", "]"}

starts_with(str, prefix) ==
  Len(prefix) <= Len(str) /\ SubSeq(str, 1, Len(prefix)) = prefix

\* Slice::compare(a, b) <= 0 on byte strings.
RECURSIVE NotAfter(_, _)
NotAfter(a, b) ==
  IF a = <<>> THEN TRUE
  ELSE IF b = <<>> THEN FALSE
  ELSE IF Head(a) = Head(b) THEN NotAfter(Tail(a), Tail(b))
  ELSE Rank(MemberOrder, Head(a)) < Rank(MemberOrder, Head(b))

\* The scan cursor store for one (kSets, key, pattern): cursor -> resume point.
NoPoints == <<>>
GetScanStartPoint(points, cursor) ==
  IF cursor \in DOMAIN points THEN [found |-> TRUE, point |-> points[cursor]]
  ELSE [found |-> FALSE, point |-> <<>>]
StoreScanNextPoint(points, cursor, next_member) ==
  [c \in DOMAIN points \cup {cursor} |-> IF c = cursor THEN next_member ELSE points[c]]

\* SSCAN with a pattern and the cursor store it reads and writes.  The
\* iterator is followed over the records of (key, version); at any record
\* after them it is invalid or outside the prefix.
SScanPattern(mcf, dcf, t, key, cursor, pattern, count, points) ==
  LET mv == mcf[BaseMetaKeyEncode(key)]
      none == [status |-> "OK", next_cursor |-> 0, members |-> <<>>, points |-> points]
  IN  IF cursor < 0 THEN none
      ELSE IF mv.type = "None" \/ IsStale(mv, t) THEN [none EXCEPT !.status = "NotFound"]
      ELSE IF ~ExpectedMetaValue(mv) THEN [none EXCEPT !.status = "WRONGTYPE"]
      ELSE
        LET got == GetScanStartPoint(points, cursor)
            tail == isTailWildcard(pattern)
            literal == SubSeq(pattern, 1, Len(pattern) - 1)
            from == IF got.found THEN cursor ELSE 0
            start_point == IF got.found THEN got.point
                           ELSE IF tail THEN literal ELSE <<>>
            sub_member == IF tail THEN literal ELSE <<>>
            \* the records the Seek leaves ahead of the iterator
            ahead == SelectSeq(InOrder(PrefixMembers(dcf, key, mv.version)),
                               LAMBDA m : NotAfter(start_point, Bytes(m)))
            \* the loop stops at the first record outside the prefix
            inside == {i \in 0..Len(ahead) :
                         \A j \in 1..i : starts_with(Bytes(ahead[j]), sub_member)}
            reach == CHOOSE i \in inside : \A j \in inside : j <= i
            n == IF count < 0 THEN 0 ELSE IF count < reach THEN count ELSE reach
            seen == SubSeq(ahead, 1, n)
            more == /\ n < Len(ahead)
                    /\ \/ NotAfter(Bytes(ahead[n + 1]), sub_member)
                       \/ starts_with(Bytes(ahead[n + 1]), sub_member)
        IN  [status |-> "OK",
             next_cursor |-> IF more THEN from + count ELSE 0,
             members |-> SelectSeq(seen, LAMBDA m : StringMatch(pattern, Bytes(m))),
             points |-> IF more
                        THEN StoreScanNextPoint(points, from + count, Bytes(ahead[n + 1]))
                        ELSE points]

(* ------------------------ SDIFF, SINTER, SUNION ------------------------ *)

\* How a snapshot read sees one key of keys[].
KeyView(mcf, t, key) ==
  LET mv == mcf[BaseMetaKeyEncode(key)]
  IN  IF mv.type = "None" THEN "NotFound"
      ELSE IF IsStale(mv, t) THEN "Stale"
      ELSE IF ~ExpectedMetaValue(mv) THEN "WRONGTYPE"
      ELSE "Valid"

VersionOf(mcf, key) == mcf[BaseMetaKeyEncode(key)].version

\* valid_sets after the loop over 'keys' from position 'from' on, or the
\* status the loop returned with.  stop: what the loop does at an absent or
\* stale key ("skip" it, or leave with "empty").
RECURSIVE GatherSets(_, _, _, _, _, _)
GatherSets(mcf, t, keys, idx, stop, valid_sets) ==
  IF idx > Len(keys) THEN [status |-> "OK", sets |-> valid_sets]
  ELSE LET view == KeyView(mcf, t, keys[idx])
       IN  IF view = "WRONGTYPE" THEN [status |-> "WRONGTYPE", sets |-> <<>>]
           ELSE IF view = "Valid"
           THEN GatherSets(mcf, t, keys, idx + 1, stop,
                           Append(valid_sets, <<keys[idx], VersionOf(mcf, keys[idx])>>))
           ELSE IF stop = "skip"
           THEN GatherSets(mcf, t, keys, idx + 1, stop, valid_sets)
           ELSE [status |-> "empty", sets |-> <<>>]

InSomeSetUnchecked(dcf, sets, m) == FALSE
InSomeSet(dcf, sets, m) ==
  \E i \in 1..Len(sets) : SetsMemberKeyEncode(sets[i][1], sets[i][2], m) \in dcf
InEverySetUnchecked(dcf, sets, m) == TRUE
InEverySet(dcf, sets, m) ==
  \A i \in 1..Len(sets) : SetsMemberKeyEncode(sets[i][1], sets[i][2], m) \in dcf

\* The members of keys[0] in iterator order.
FirstKeyMembers(mcf, dcf, keys) ==
  InOrder(PrefixMembers(dcf, keys[1], VersionOf(mcf, keys[1])))

SDiff(mcf, dcf, t, keys) ==
  LET g == GatherSets(mcf, t, keys, 2, "skip", <<>>)
      view0 == KeyView(mcf, t, keys[1])
  IN  IF g.status = "WRONGTYPE" THEN Result("WRONGTYPE", NoRet, <<>>, <<>>)
      ELSE IF view0 = "WRONGTYPE" THEN Result("WRONGTYPE", NoRet, <<>>, <<>>)
      ELSE IF view0 # "Valid" THEN Result("OK", NoRet, <<>>, <<>>)
      ELSE Result("OK", NoRet,
                  SelectSeq(FirstKeyMembers(mcf, dcf, keys),
                            LAMBDA m : ~InSomeSet(dcf, g.sets, m)), <<>>)

SInter(mcf, dcf, t, keys) ==
  LET g == GatherSets(mcf, t, keys, 2, "empty", <<>>)
      view0 == KeyView(mcf, t, keys[1])
  IN  IF g.status = "WRONGTYPE" THEN Result("WRONGTYPE", NoRet, <<>>, <<>>)
      ELSE IF g.status = "empty" THEN Result("OK", NoRet, <<>>, <<>>)
      ELSE IF view0 = "WRONGTYPE" THEN Result("WRONGTYPE", NoRet, <<>>, <<>>)
      ELSE IF view0 # "Valid" THEN Result("OK", NoRet, <<>>, <<>>)
      ELSE Result("OK", NoRet,
                  SelectSeq(FirstKeyMembers(mcf, dcf, keys),
                            LAMBDA m : InEverySet(dcf, g.sets, m)), <<>>)

\* The loop over valid_sets of SUNION: each member once, first occurrence wins.
RECURSIVE UnionMembers(_, _, _, _)
UnionMembers(dcf, sets, i, members) ==
  IF i > Len(sets) THEN members
  ELSE UnionMembers(dcf, sets, i + 1,
         members \o SelectSeq(InOrder(PrefixMembers(dcf, sets[i][1], sets[i][2])),
                              LAMBDA m : m \notin Range(members)))

SUnion(mcf, dcf, t, keys) ==
  LET g == GatherSets(mcf, t, keys, 1, "skip", <<>>)
  IN  IF g.status = "WRONGTYPE" THEN Result("WRONGTYPE", NoRet, <<>>, <<>>)
      ELSE Result("OK", NoRet, UnionMembers(dcf, g.sets, 1, <<>>), <<>>)

\* The iterators SDIFF leaves open: the one over keys[0] is deleted before
\* the return inside the loop and after the loop.
SDiffOpenIterators(mcf, t, keys) ==
  IF KeyView(mcf, t, keys[1]) = "Valid" THEN 1 - 1 ELSE 0

(* ---------------- SDIFFSTORE, SINTERSTORE, SUNIONSTORE ----------------- *)

\* The tail shared by the three: the destination's meta written under
\* 'slot' when the destination holds a Set meta, a fresh meta under the
\* encoded key otherwise, then the members under the version chosen.
StoreInto(mcf, t, destination, slot, members) ==
  LET mv == mcf[BaseMetaKeyEncode(destination)]
      n == Len(members)
  IN  IF mv.type # "None" /\ ExpectedMetaValue(mv) THEN
        LET init == InitialMetaValue(mv, t)
        IN  IF ~check_set_count(n) THEN Result("set size overflow", NoRet, <<>>, <<>>)
            ELSE Result("OK", n, members,
                        <<PutMeta(slot, [init EXCEPT !.count = n])>>
                        \o PutMembers(destination, init.version, members))
      ELSE
        LET fresh == FreshMetaValue(n, t)
        IN  Result("OK", n, members,
                   <<PutMeta(BaseMetaKeyEncode(destination), fresh)>>
                   \o PutMembers(destination, fresh.version, members))

SDiffstore(mcf, dcf, t, destination, keys) ==
  LET r == SDiff(mcf, dcf, t, keys)
  IN  IF r.status # "OK" THEN r
      ELSE StoreInto(mcf, t, destination, BaseMetaKeyEncode(destination), r.out)

\* have_invalid_sets leaves 'members' empty; the WRONGTYPE returns are those
\* of SINTER.
SInterstore(mcf, dcf, t, destination, keys) ==
  LET r == SInter(mcf, dcf, t, keys)
  IN  IF r.status # "OK" THEN r
      ELSE StoreInto(mcf, t, destination, BaseMetaKeyEncode(destination), r.out)

\* SUNIONSTORE puts the meta of an existing Set under the destination Slice
\* itself.
SUnionstore(mcf, dcf, t, destination, keys) ==
  LET r == SUnion(mcf, dcf, t, keys)
  IN  IF r.status # "OK" THEN r
      ELSE StoreInto(mcf, t, destination, RawSlice(destination), r.out)

(* -------------------------- RENAME, RENAMENX --------------------------- *)

\* The two Puts of SetsRename, in the order it issues them.
RenameWrites(mv, t, key, newkey) ==
  <<PutMeta(BaseMetaKeyEncode(newkey), mv),
    PutMeta(BaseMetaKeyEncode(key), InitialMetaValue(mv, t))>>

SetsRename(mcf, t, key, newkey) ==
  LET mv == mcf[BaseMetaKeyEncode(key)]
  IN  IF mv.type = "None" THEN Result("NotFound", NoRet, <<>>, <<>>)
      ELSE IF IsStale(mv, t) THEN Result("NotFound", NoRet, <<>>, <<>>)
      ELSE IF mv.count = 0 THEN Result("NotFound", NoRet, <<>>, <<>>)
      ELSE Result("OK", NoRet, <<>>, RenameWrites(mv, t, key, newkey))

SetsRenamenxOverwrites(mcf, t, key, newkey) == SetsRename(mcf, t, key, newkey)
SetsRenamenx(mcf, t, key, newkey) ==
  LET mv == mcf[BaseMetaKeyEncode(key)]
      nmv == mcf[BaseMetaKeyEncode(newkey)]
  IN  IF mv.type = "None" THEN Result("NotFound", NoRet, <<>>, <<>>)
      ELSE IF IsStale(mv, t) THEN Result("NotFound", NoRet, <<>>, <<>>)
      ELSE IF mv.count = 0 THEN Result("NotFound", NoRet, <<>>, <<>>)
      ELSE IF nmv.type # "None" /\ ~IsStale(nmv, t) /\ nmv.count # 0
      THEN Result("Corruption", NoRet, <<>>, <<>>)
      ELSE Result("OK", NoRet, <<>>, RenameWrites(mv, t, key, newkey))

(* ---------------------------- store failures --------------------------- *)

\* One read, write or commit of the call returns a status that is neither OK
\* nor NotFound.  'at' names the call of the store that fails; XReaches says
\* whether the call gets that far, XFailing what it then returns and writes.
Faulted(ret) == Result("IOError", ret, <<>>, <<>>)

SRemFaults == {"GetMeta", "GetMember", "Commit"}
SRemReaches(mcf, dcf, t, key, members, at) ==
  LET mv == mcf[BaseMetaKeyEncode(key)]
  IN  CASE at = "GetMeta" -> TRUE
        [] at = "GetMember" ->
             /\ mv.type # "None" /\ ~IsStale(mv, t) /\ ExpectedMetaValue(mv)
             /\ members # <<>>
        [] at = "Commit" -> SRem(mcf, dcf, t, key, members).status = "OK"
SRemFailing(mcf, dcf, t, key, members, at) ==
  CASE at = "GetMeta" -> Faulted(0)
    [] at = "GetMember" -> Faulted(0)
    [] at = "Commit" -> Faulted(SRem(mcf, dcf, t, key, members).ret)

StoreFaults == {"GetKey", "GetDestination", "Commit"}
SDiffstoreReaches(mcf, dcf, t, destination, keys, at) ==
  CASE at = "GetKey" -> keys # <<>>
    [] at = "GetDestination" -> keys # <<>> /\ SDiff(mcf, dcf, t, keys).status = "OK"
    [] at = "Commit" ->
         keys # <<>> /\ SDiffstore(mcf, dcf, t, destination, keys).status = "OK"
\* A failed Get of the destination's meta is neither 's.ok() && Expected...'
\* nor returned: the else branch puts a fresh meta.
SDiffstoreFailing(mcf, dcf, t, destination, keys, at) ==
  CASE at = "GetKey" -> Faulted(NoRet)
    [] at = "GetDestination" ->
         StoreInto([mcf EXCEPT ![BaseMetaKeyEncode(destination)] = NoMeta], t,
                   destination, BaseMetaKeyEncode(destination),
                   SDiff(mcf, dcf, t, keys).out)
    [] at = "Commit" -> Faulted(Len(SDiff(mcf, dcf, t, keys).out))

\* 's' is assigned by each Put and returned at the end: the status of the
\* first Put is lost, and the second Put is issued whatever the first did.
RenameFaults == {"Get", "PutNewkey", "PutKey"}
SetsRenameReaches(mcf, t, key, newkey, at) ==
  at = "Get" \/ SetsRename(mcf, t, key, newkey).status = "OK"
SetsRenameFailing(mcf, t, key, newkey, at) ==
  LET w == RenameWrites(mcf[BaseMetaKeyEncode(key)], t, key, newkey)
  IN  CASE at = "Get" -> Faulted(NoRet)
        [] at = "PutNewkey" -> Result("OK", NoRet, <<>>, <<w[2]>>)
        [] at = "PutKey" -> Result("IOError", NoRet, <<>>, <<w[1]>>)

\* A failed Get of newkey's meta skips the test for a live newkey.
RenamenxFaults == {"Get", "GetNewkey", "PutNewkey", "PutKey"}
SetsRenamenxReaches(mcf, t, key, newkey, at) ==
  CASE at = "Get" -> TRUE
    [] at = "GetNewkey" -> SetsRename(mcf, t, key, newkey).status = "OK"
    [] OTHER -> SetsRenamenx(mcf, t, key, newkey).status = "OK"
SetsRenamenxFailing(mcf, t, key, newkey, at) ==
  LET w == RenameWrites(mcf[BaseMetaKeyEncode(key)], t, key, newkey)
  IN  CASE at = "Get" -> Faulted(NoRet)
        [] at = "GetNewkey" -> Result("OK", NoRet, <<>>, w)
        [] at = "PutNewkey" -> Result("OK", NoRet, <<>>, <<w[2]>>)
        [] at = "PutKey" -> Result("IOError", NoRet, <<>>, <<w[1]>>)

(* ------------------------------- state --------------------------------- *)

VARIABLES
  metaCF,   \* the meta column family: slot -> MetaValue (NoMeta when absent)
  dataCF,   \* the member column family: the set of member keys present
  now,      \* the wall clock
  last,     \* the last mutating call and what it returned
  steps,    \* the number of calls made
  seed,     \* the members each key held when the threads started
  task,     \* the call each thread makes
  locks,    \* the record locks: user key -> the thread holding it, or Free
  thread,   \* each thread's place in its call and its local variables
  scan_cursors_store  \* (key, pattern) -> the resume point kept per cursor

store == <<metaCF, dataCF>>
threads == <<seed, task, locks, thread, scan_cursors_store>>
vars == <<metaCF, dataCF, now, last, steps, seed, task, locks, thread, scan_cursors_store>>

\* The member keys a batch puts.
PutsOf(batch) ==
  {batch[i].key : i \in {j \in 1..Len(batch) : batch[j].cf = "data" /\ batch[j].op = "Put"}}

NoCall == [op |-> "none", key |-> "", key2 |-> "", status |-> "", ret |-> NoRet,
           wrote |-> {}]
Call(op, key, key2, r) ==
  [op |-> op, key |-> key, key2 |-> key2, status |-> r.status, ret |-> r.ret,
   wrote |-> PutsOf(r.batch)]

Procs == {"p1", "p2"}
Free == "free"
NoTask == [name |-> "none", key |-> "", key2 |-> "", args |-> <<>>]
NoSnapshot == [meta |-> <<>>, data |-> {}]
Fresh ==
  [pc |-> "start", want |-> <<>>, status |-> "", ret |-> NoRet, out |-> <<>>,
   groups |-> <<>>, snapshot |-> NoSnapshot, valid_sets |-> <<>>]

\* One client, one call at a time: no thread has a call of its own.
Init ==
  /\ metaCF = [s \in MetaSlots |-> NoMeta]
  /\ dataCF = {}
  /\ now = 1
  /\ last = NoCall
  /\ steps = 0
  /\ seed = [k \in Keys |-> <<>>]
  /\ task = [p \in Procs |-> NoTask]
  /\ locks = [k \in Keys |-> Free]
  /\ thread = [p \in Procs |-> Fresh]
  /\ scan_cursors_store = [kp \in Keys \X Patterns |-> NoPoints]

WithinBounds(mcf) ==
  \A s \in MetaSlots :
    /\ mcf[s].version <= MaxVersion
    /\ mcf[s].count <= MaxCount \/ mcf[s].count >= Int32Max - 1

\* One call, start to return: its writes reach the store only through the
\* batch it commits.
Returns(op, key, key2, r) ==
  /\ WithinBounds(CommitMeta(metaCF, r.batch))
  /\ metaCF' = CommitMeta(metaCF, r.batch)
  /\ dataCF' = CommitData(dataCF, r.batch)
  /\ last' = Call(op, key, key2, r)
  /\ UNCHANGED <<now, threads>>

KeyLists == SeqsUpTo(Keys, MaxKeys)
\* cnt of SPOP: the small counts, and one that ModifyCount(-cnt) turns into
\* nearly the whole 32-bit range.
PopCounts == ((0 - 1)..MaxCount) \cup {1 - Int32Max}

SAddCall(key, members) ==
  Returns("SADD", key, "", SAdd(metaCF, dataCF, now, key, members))

SRemCall(key, members) ==
  Returns("SREM", key, "", SRem(metaCF, dataCF, now, key, members))

SMoveCall(source, destination, member) ==
  Returns("SMOVE", source, destination,
          SMove(metaCF, dataCF, now, source, destination, member))

SPopCall(key, cnt, sets_index) ==
  Returns("SPOP", key, "", SPop(metaCF, dataCF, now, key, cnt, sets_index))

SDiffstoreCall(destination, keys) ==
  Returns("SDIFFSTORE", destination, "", SDiffstore(metaCF, dataCF, now, destination, keys))

SInterstoreCall(destination, keys) ==
  Returns("SINTERSTORE", destination, "", SInterstore(metaCF, dataCF, now, destination, keys))

SUnionstoreCall(destination, keys) ==
  Returns("SUNIONSTORE", destination, "", SUnionstore(metaCF, dataCF, now, destination, keys))

\* SetsRename and SetsRenamenx parse the meta as a Set meta without looking
\* at its type: they are the RENAME of a key that holds no other type.
RenameCall(key, newkey) ==
  /\ metaCF[BaseMetaKeyEncode(key)].type \in {"None", "Set"}
  /\ Returns("RENAME", key, newkey, SetsRename(metaCF, now, key, newkey))

RenamenxCall(key, newkey) ==
  /\ metaCF[BaseMetaKeyEncode(key)].type \in {"None", "Set"}
  /\ metaCF[BaseMetaKeyEncode(newkey)].type \in {"None", "Set"}
  /\ Returns("RENAMENX", key, newkey, SetsRenamenx(metaCF, now, key, newkey))

\* EXPIRE key ttl on a live Set, ttl = 1.
Expire(mcf, t, key) ==
  LET slot == BaseMetaKeyEncode(key)
      mv == mcf[slot]
  IN  IF mv.type # "Set" \/ IsStale(mv, t) \/ mv.count = 0
      THEN Result("NotFound", 0, <<>>, <<>>)
      ELSE Result("OK", 1, <<>>, <<PutMeta(slot, [mv EXCEPT !.etime = t + 1])>>)

ExpireCall(key) ==
  /\ now < MaxTime
  /\ Returns("EXPIRE", key, "", Expire(metaCF, now, key))

\* SET key value [EX 1]: the key now holds a String.
SetString(t, key, ttl) ==
  Result("OK", NoRet, <<>>,
         <<PutMeta(BaseMetaKeyEncode(key),
                   [type |-> "String", count |-> 0, version |-> 0,
                    etime |-> IF ttl = 0 THEN 0 ELSE t + ttl])>>)

SetStringCall(key, ttl) ==
  /\ ttl = 0 \/ now < MaxTime
  /\ Returns("SET", key, "", SetString(now, key, ttl))

\* Spec runs at most MaxSteps calls; SpecAddRem runs any number.
Spend == steps < MaxSteps /\ steps' = steps + 1
Unmetered == UNCHANGED steps

Tick ==
  /\ now < MaxTime
  /\ now' = now + 1
  /\ UNCHANGED <<metaCF, dataCF, last, steps, threads>>

Next ==
  \/ \E key \in Keys, members \in MemberLists : Spend /\ SAddCall(key, members)
  \/ \E key \in Keys, members \in MemberLists : Spend /\ SRemCall(key, members)
  \/ \E source \in Keys, destination \in Keys, member \in Members :
       Spend /\ SMoveCall(source, destination, member)
  \/ \E key \in Keys, cnt \in PopCounts :
       /\ cnt <= 0 \/ metaCF[BaseMetaKeyEncode(key)].count <= MaxCount
       /\ \E sets_index \in SPopDraws(metaCF[BaseMetaKeyEncode(key)].count, cnt) :
            Spend /\ SPopCall(key, cnt, sets_index)
  \/ \E destination \in Keys, keys \in KeyLists : Spend /\ SDiffstoreCall(destination, keys)
  \/ \E destination \in Keys, keys \in KeyLists : Spend /\ SInterstoreCall(destination, keys)
  \/ \E destination \in Keys, keys \in KeyLists : Spend /\ SUnionstoreCall(destination, keys)
  \/ \E key \in Keys, newkey \in Keys : Spend /\ RenameCall(key, newkey)
  \/ \E key \in Keys, newkey \in Keys : Spend /\ RenamenxCall(key, newkey)
  \/ \E key \in Keys : Spend /\ ExpireCall(key)
  \/ \E key \in Keys, ttl \in {0, 1} : Spend /\ SetStringCall(key, ttl)
  \/ Tick

Spec == Init /\ [][Next]_vars

\* SADD and SREM only.
NextAddRem ==
  \/ \E key \in Keys, members \in MemberLists : Unmetered /\ SAddCall(key, members)
  \/ \E key \in Keys, members \in MemberLists : Unmetered /\ SRemCall(key, members)
  \/ Tick

SpecAddRem == Init /\ [][NextAddRem]_vars

\* SSCAN reads the store and writes the scan cursor store only.
SScanCall(key, cursor, pattern, count) ==
  LET r == SScanPattern(metaCF, dataCF, now, key, cursor, pattern, count,
                        scan_cursors_store[<<key, pattern>>])
  IN  /\ r.next_cursor <= MaxCursor
      /\ scan_cursors_store' = [scan_cursors_store EXCEPT ![<<key, pattern>>] = r.points]
      /\ last' = Call("SSCAN", key, "", Result(r.status, r.next_cursor, r.members, <<>>))
      /\ UNCHANGED <<store, now, seed, task, locks, thread>>

\* SADD and SREM change the Sets between scans.
NextScan ==
  \/ \E key \in Keys, members \in MemberLists : Spend /\ SAddCall(key, members)
  \/ \E key \in Keys, members \in MemberLists : Spend /\ SRemCall(key, members)
  \/ \E key \in Keys, cursor \in 0..MaxCursor, pattern \in Patterns, count \in 0..MaxCount :
       Spend /\ SScanCall(key, cursor, pattern, count)

SpecScan == Init /\ [][NextScan]_vars

\* Calls in which the store fails once.
SRemFaultCall(key, members, at) ==
  /\ SRemReaches(metaCF, dataCF, now, key, members, at)
  /\ Returns("SREM", key, "", SRemFailing(metaCF, dataCF, now, key, members, at))
SDiffstoreFaultCall(destination, keys, at) ==
  /\ SDiffstoreReaches(metaCF, dataCF, now, destination, keys, at)
  /\ Returns("SDIFFSTORE", destination, "",
             SDiffstoreFailing(metaCF, dataCF, now, destination, keys, at))
RenameFaultCall(key, newkey, at) ==
  /\ metaCF[BaseMetaKeyEncode(key)].type \in {"None", "Set"}
  /\ SetsRenameReaches(metaCF, now, key, newkey, at)
  /\ Returns("RENAME", key, newkey, SetsRenameFailing(metaCF, now, key, newkey, at))
RenamenxFaultCall(key, newkey, at) ==
  /\ metaCF[BaseMetaKeyEncode(key)].type \in {"None", "Set"}
  /\ metaCF[BaseMetaKeyEncode(newkey)].type \in {"None", "Set"}
  /\ SetsRenamenxReaches(metaCF, now, key, newkey, at)
  /\ Returns("RENAMENX", key, newkey, SetsRenamenxFailing(metaCF, now, key, newkey, at))

\* A step in which the store fails.
FaultStep ==
  \/ \E key \in Keys, members \in MemberLists, at \in SRemFaults :
       Spend /\ SRemFaultCall(key, members, at)
  \/ \E destination \in Keys, keys \in KeyLists, at \in StoreFaults :
       Spend /\ SDiffstoreFaultCall(destination, keys, at)
  \/ \E key \in Keys, newkey \in Keys, at \in RenameFaults :
       Spend /\ RenameFaultCall(key, newkey, at)
  \/ \E key \in Keys, newkey \in Keys, at \in RenamenxFaults :
       Spend /\ RenamenxFaultCall(key, newkey, at)

\* SADD and EXPIRE build the Sets; every other call meets a failure.
NextFaults ==
  \/ \E key \in Keys, members \in MemberLists : Spend /\ SAddCall(key, members)
  \/ \E key \in Keys : Spend /\ ExpireCall(key)
  \/ FaultStep
  \/ Tick

SpecFaults == Init /\ [][NextFaults]_vars

(* --------------------------- concurrent calls -------------------------- *)

\* Each thread makes one call.  A mutator takes its record locks, reads the
\* store, commits and leaves its scope; a reader opens a snapshot and reads
\* through it.

ReaderKeyLists == {ks \in KeyLists : Len(ks) = 2 /\ ks[1] # ks[2]}
Tasks ==
  {[name |-> "SADD", key |-> k, key2 |-> "", args |-> ms] :
     k \in Keys, ms \in MemberLists}
  \cup {[name |-> "SMOVE", key |-> k, key2 |-> k2, args |-> <<m>>] :
     k \in Keys, k2 \in Keys, m \in Members}
  \cup {[name |-> n, key |-> k, key2 |-> k2, args |-> <<>>] :
     n \in {"RENAME", "RENAMENX"}, k \in Keys, k2 \in Keys}
  \cup {[name |-> n, key |-> "", key2 |-> "", args |-> ks] :
     n \in {"SDIFF", "SUNION", "SINTER"}, ks \in ReaderKeyLists}
\* The single-key reads: SISMEMBER of one member, SRANDMEMBER of count 0 or 1,
\* SSCAN from cursor 0 with count 1.
ReadTasks ==
  {[name |-> n, key |-> k, key2 |-> "", args |-> <<>>] :
     n \in {"SCARD", "SMEMBERS", "SSCAN"}, k \in Keys}
  \cup {[name |-> "SISMEMBER", key |-> k, key2 |-> "", args |-> <<m>>] :
     k \in Keys, m \in Members}
  \cup {[name |-> "SRANDMEMBER", key |-> k, key2 |-> "", args |-> <<c>>] :
     k \in Keys, c \in 0..1}
\* SDIFFSTORE of two different keys into a destination.
StoreTasks ==
  {[name |-> "SDIFFSTORE", key |-> k, key2 |-> "", args |-> ks] :
     k \in Keys, ks \in ReaderKeyLists}
\* The calls that open a snapshot (ScopeSnapshot) and take no lock.
IsReader(t) ==
  t.name \in {"SDIFF", "SUNION", "SINTER", "SMEMBERS", "SISMEMBER", "SSCAN"}

\* MultiScopeRecordLock: the keys sorted, each taken once.
RECURSIVE SortedKeysFrom(_, _)
SortedKeysFrom(S, i) ==
  IF i > Len(KeyOrder) THEN <<>>
  ELSE (IF KeyOrder[i] \in S THEN <<KeyOrder[i]>> ELSE <<>>) \o SortedKeysFrom(S, i + 1)
MultiScopeRecordLock(keys) == SortedKeysFrom(Range(keys), 1)
\* ScopeRecordLock: the one key.
ScopeRecordLock(key) == <<key>>

\* The record locks each call takes, in the order it takes them.
SAddNoLock(key) == <<>>
SAddLocks(key) == ScopeRecordLock(key)
SMoveLocksAsGiven(source, destination) == <<source, destination>>
SMoveLocks(source, destination) == MultiScopeRecordLock(<<source, destination>>)
SetsRenameLocks(key, newkey) == MultiScopeRecordLock(<<key, newkey>>)
SDiffstoreLocks(destination) == ScopeRecordLock(destination)
\* SRANDMEMBER returns before its ScopeRecordLock when count is 0.
SRandmemberLocks(key, count) == IF count = 0 THEN <<>> ELSE ScopeRecordLock(key)
LocksOf(t) ==
  CASE t.name = "SADD" -> SAddLocks(t.key)
    [] t.name = "SMOVE" -> SMoveLocks(t.key, t.key2)
    [] t.name \in {"RENAME", "RENAMENX"} -> SetsRenameLocks(t.key, t.key2)
    [] t.name = "SRANDMEMBER" -> SRandmemberLocks(t.key, t.args[1])
    [] t.name = "SDIFFSTORE" -> SDiffstoreLocks(t.key)
    [] OTHER -> <<>>

\* What reaches the store together: a batch commits as one write, and each
\* db_->Put of SetsRename and SetsRenamenx is a write of its own.
BatchCommit(batch) == IF batch = <<>> THEN <<>> ELSE <<batch>>
SeparatePuts(batch) == [i \in 1..Len(batch) |-> <<batch[i]>>]
SAddCommit(batch) == BatchCommit(batch)
SMoveWriteByWrite(batch) == SeparatePuts(batch)
SMoveCommit(batch) == BatchCommit(batch)

ResultOf(t, mcf, dcf, time) ==
  CASE t.name = "SADD" -> SAdd(mcf, dcf, time, t.key, t.args)
    [] t.name = "SMOVE" -> SMove(mcf, dcf, time, t.key, t.key2, t.args[1])
    [] t.name = "RENAME" -> SetsRename(mcf, time, t.key, t.key2)
    [] t.name = "RENAMENX" -> SetsRenamenx(mcf, time, t.key, t.key2)
    [] t.name = "SDIFF" -> SDiff(mcf, dcf, time, t.args)
    [] t.name = "SUNION" -> SUnion(mcf, dcf, time, t.args)
    [] t.name = "SINTER" -> SInter(mcf, dcf, time, t.args)
    [] t.name = "SDIFFSTORE" -> SDiffstore(mcf, dcf, time, t.key, t.args)
    [] t.name = "SCARD" -> SCard(mcf, time, t.key)
    [] t.name = "SMEMBERS" -> SMembers(mcf, dcf, time, t.key)
    [] t.name = "SISMEMBER" -> SIsmember(mcf, dcf, time, t.key, t.args[1])
    [] t.name = "SSCAN" -> SScan(mcf, dcf, time, t.key, 0, 1, "")
    [] t.name = "SRANDMEMBER" ->
         SRandmember(mcf, dcf, time, t.key, t.args[1],
                     IF t.args[1] > 0 /\ mcf[BaseMetaKeyEncode(t.key)].count > 0
                     THEN <<0>> ELSE <<>>, FALSE)
GroupsOf(t, batch) ==
  CASE t.name = "SADD" -> SAddCommit(batch)
    [] t.name = "SMOVE" -> SMoveCommit(batch)
    [] t.name \in {"RENAME", "RENAMENX"} -> SeparatePuts(batch)
    [] t.name = "SDIFFSTORE" -> BatchCommit(batch)
    [] OTHER -> <<>>

\* The store a client finds: each key absent or holding the members SADD gave
\* it.
RECURSIVE SeededMeta(_, _, _)
SeededMeta(mcf, sd, i) ==
  IF i > Len(KeyOrder) THEN mcf
  ELSE LET k == KeyOrder[i]
       IN  SeededMeta(IF sd[k] = <<>> THEN mcf
                      ELSE CommitMeta(mcf, SAdd(mcf, {}, 1, k, sd[k]).batch), sd, i + 1)
SeededData(sd) ==
  UNION {PutsOf(SAdd([s \in MetaSlots |-> NoMeta], {}, 1, k, sd[k]).batch) :
           k \in {x \in Keys : sd[x] # <<>>}}
Seeds ==
  {sd \in [Keys -> {<<>>} \cup {<<m>> : m \in Members}] :
     \A k \in Keys : sd[k] = <<>> \/ sd[k] = <<MemberOrder[Rank(KeyOrder, k)]>>}

InitConc ==
  /\ seed \in Seeds
  /\ task \in [Procs -> Tasks]
  /\ metaCF = SeededMeta([s \in MetaSlots |-> NoMeta], seed, 1)
  /\ dataCF = SeededData(seed)
  /\ now = 1
  /\ last = NoCall
  /\ steps = 0
  /\ locks = [k \in Keys |-> Free]
  /\ thread = [p \in Procs |-> Fresh]
  /\ scan_cursors_store = [kp \in Keys \X Patterns |-> NoPoints]

Frame == UNCHANGED <<now, last, steps, seed, task, scan_cursors_store>>

\* The call begins: a mutator goes for its locks, a reader opens its
\* snapshot (ScopeSnapshot).
Begin(p) ==
  /\ thread[p].pc = "start"
  /\ thread' = [thread EXCEPT ![p] =
       IF IsReader(task[p])
       THEN [@ EXCEPT !.pc = "gather",
                      !.snapshot = [meta |-> metaCF, data |-> dataCF]]
       ELSE [@ EXCEPT !.pc = "lock", !.want = LocksOf(task[p])]]
  /\ UNCHANGED <<store, locks>>
  /\ Frame

\* The next record lock, once it is free.
Acquire(p) ==
  /\ thread[p].pc = "lock"
  /\ thread[p].want # <<>>
  /\ locks[Head(thread[p].want)] = Free
  /\ locks' = [locks EXCEPT ![Head(thread[p].want)] = p]
  /\ thread' = [thread EXCEPT ![p].want = Tail(@)]
  /\ UNCHANGED store
  /\ Frame

\* All locks held: the reads of the call, and the batch it builds.
\* SDIFFSTORE opens its snapshot here, after its lock, and reads through it.
Read(p) ==
  /\ thread[p].pc = "lock"
  /\ thread[p].want = <<>>
  /\ LET r == ResultOf(task[p], metaCF, dataCF, now)
     IN  thread' = [thread EXCEPT ![p] =
           [@ EXCEPT !.pc = "commit", !.status = r.status, !.ret = r.ret,
                     !.out = r.out, !.groups = GroupsOf(task[p], r.batch),
                     !.snapshot = IF task[p].name = "SDIFFSTORE"
                                  THEN [meta |-> metaCF, data |-> dataCF] ELSE @]]
  /\ UNCHANGED <<store, locks>>
  /\ Frame

\* The next write reaches the store.
Commit(p) ==
  /\ thread[p].pc = "commit"
  /\ thread[p].groups # <<>>
  /\ metaCF' = CommitMeta(metaCF, Head(thread[p].groups))
  /\ dataCF' = CommitData(dataCF, Head(thread[p].groups))
  /\ thread' = [thread EXCEPT ![p].groups = Tail(@)]
  /\ UNCHANGED locks
  /\ Frame

\* The locks once the scope of thread p has ended: the destructors of
\* ScopeRecordLock and MultiScopeRecordLock run on every return.
KeptAfterError(p) ==
  [k \in Keys |-> IF locks[k] = p /\ thread[p].status = "OK" THEN Free ELSE locks[k]]
Released(p) == [k \in Keys |-> IF locks[k] = p THEN Free ELSE locks[k]]

\* The call returns: the scope ends, its locks are released and its snapshot
\* is closed.
Return(p) ==
  /\ thread[p].pc = "commit"
  /\ thread[p].groups = <<>>
  /\ locks' = Released(p)
  /\ thread' = [thread EXCEPT ![p] = [@ EXCEPT !.pc = "done", !.snapshot = NoSnapshot]]
  /\ UNCHANGED store
  /\ Frame

\* What a reader reads from: its snapshot.
ReadLatest(p) == [meta |-> metaCF, data |-> dataCF]
ReadView(p) == thread[p].snapshot

\* The first loop of a reader: the metas of keys[].
Gather(p) ==
  /\ thread[p].pc = "gather"
  /\ thread' = [thread EXCEPT ![p] =
       [@ EXCEPT !.pc = "iterate", !.valid_sets = ReadView(p).meta]]
  /\ UNCHANGED <<store, locks>>
  /\ Frame

\* The second loop: the member records, and the return.
Iterate(p) ==
  /\ thread[p].pc = "iterate"
  /\ LET r == ResultOf(task[p], thread[p].valid_sets, ReadView(p).data, now)
     IN  thread' = [thread EXCEPT ![p] =
           [@ EXCEPT !.pc = "done", !.status = r.status, !.out = r.out,
                     !.snapshot = NoSnapshot, !.valid_sets = <<>>]]
  /\ UNCHANGED <<store, locks>>
  /\ Frame

Step(p) ==
  \/ Begin(p)
  \/ Acquire(p)
  \/ Read(p)
  \/ Commit(p)
  \/ Return(p)
  \/ Gather(p)
  \/ Iterate(p)

NextConc == \E p \in Procs : Step(p)

SpecConc == InitConc /\ [][NextConc]_vars

\* Every thread that can take a step eventually takes one.
FairSpecConc == SpecConc /\ \A p \in Procs : WF_vars(Step(p))

AllDone == \A p \in Procs : thread[p].pc = "done"

\* One client reads a key while the other changes the store.
InitReads ==
  /\ seed \in Seeds
  /\ task \in {tk \in [Procs -> Tasks \cup ReadTasks \cup StoreTasks] :
                 /\ tk["p1"] \in ReadTasks
                 /\ tk["p2"] \in Tasks \cup StoreTasks /\ ~IsReader(tk["p2"])}
  /\ metaCF = SeededMeta([s \in MetaSlots |-> NoMeta], seed, 1)
  /\ dataCF = SeededData(seed)
  /\ now = 1
  /\ last = NoCall
  /\ steps = 0
  /\ locks = [k \in Keys |-> Free]
  /\ thread = [p \in Procs |-> Fresh]
  /\ scan_cursors_store = [kp \in Keys \X Patterns |-> NoPoints]

SpecReads == InitReads /\ [][NextConc]_vars

(* ------------------------------- claims -------------------------------- *)

MetaOf(key) == metaCF[BaseMetaKeyEncode(key)]
\* A live Set: present, of type Set, not expired, count not 0.
LiveSet(mv, t) == mv.type = "Set" /\ ~IsStale(mv, t) /\ mv.count # 0

\* C1: after any sequence of SADD and SREM calls, SCARD(key) equals the
\* number of members SMEMBERS(key) returns.
C1_ScardIsSmembersSize ==
  \A key \in Keys :
    SCard(metaCF, now, key).ret = Len(SMembers(metaCF, dataCF, now, key).out)

\* C2: after SUNIONSTORE(dst, keys), SMEMBERS(dst) is the set SUNION(keys)
\* returned and SCARD(dst) is the cardinality the call returned, whatever dst
\* held before.
C2_UnionstoreStoresUnion ==
  [][\A destination \in Keys, keys \in KeyLists :
       (SUnionstoreCall(destination, keys) /\ last'.status = "OK")
       => /\ Range(SMembers(metaCF', dataCF', now', destination).out)
               = Range(SUnion(metaCF, dataCF, now, keys).out)
          /\ SCard(metaCF', now', destination).ret = last'.ret]_vars

\* C3: SMOVE(src, dst, member) with src and dst the same key changes neither
\* the members nor the count of the Set.
C3_MoveOntoItselfChangesNothing ==
  [][\A key \in Keys, member \in Members :
       SMoveCall(key, key, member)
       => /\ SMembers(metaCF', dataCF', now', key).out
               = SMembers(metaCF, dataCF, now, key).out
          /\ MetaOf(key)'.count = MetaOf(key).count]_vars

\* C4: after RENAME(key, newkey) of a live Set, key # newkey, newkey holds the
\* members key held, SCARD(newkey) is their number, and key no longer exists.
C4_RenameMovesTheSet ==
  [][\A key \in Keys, newkey \in Keys :
       (key # newkey /\ LiveSet(MetaOf(key), now) /\ RenameCall(key, newkey))
       => /\ SMembers(metaCF', dataCF', now', newkey).out
               = SMembers(metaCF, dataCF, now, key).out
          /\ SCard(metaCF', now', newkey).ret
               = Len(SMembers(metaCF, dataCF, now, key).out)
          /\ SCard(metaCF', now', key).status = "NotFound"]_vars

\* C5: the count of every live Set meta is the number of member records
\* stored under its (key, version).
C5_CountIsNumberOfRecords ==
  \A key \in Keys :
    LiveSet(MetaOf(key), now)
    => MetaOf(key).count = Cardinality(PrefixMembers(dataCF, key, MetaOf(key).version))

\* C6: the version of a user key only grows: a step that leaves the key with
\* a Set meta of another version than it held leaves it with a greater one.
C6_VersionOnlyGrows ==
  [][\A key \in Keys :
       (MetaOf(key)'.type = "Set" /\ MetaOf(key)'.version # MetaOf(key).version)
       => MetaOf(key)'.version > MetaOf(key).version]_vars

\* C7: when a step gives a key another version (logical delete followed by
\* re-creation), SMEMBERS returns afterwards only members the step itself
\* stored: none whose record was stored under an earlier incarnation.
C7_NoGhostMembers ==
  [][\A key \in Keys, m \in Members :
       (/\ MetaOf(key)'.version # MetaOf(key).version
        /\ m \in Range(SMembers(metaCF', dataCF', now', key).out))
       => SetsMemberKeyEncode(key, MetaOf(key)'.version, m) \in last'.wrote]_vars

SeedMembers(key) == Range(seed[key])
Done(p) == thread[p].pc = "done"

\* Two threads that SADD disjoint member lists to one key.
DisjointAdds(p, q) ==
  /\ p # q
  /\ task[p].name = "SADD" /\ task[q].name = "SADD"
  /\ task[p].key = task[q].key
  /\ Range(task[p].args) \cap Range(task[q].args) = {}

\* C8: when concurrent SADDs of disjoint member lists to one key have
\* returned, each returned the number of distinct members it added and SCARD
\* is the number of members the key holds: none is lost.
C8_ConcurrentAddsAllCount ==
  \A p \in Procs, q \in Procs :
    (DisjointAdds(p, q) /\ AllDone)
    => /\ thread[p].ret = Cardinality(Range(task[p].args) \ SeedMembers(task[p].key))
       /\ SCard(metaCF, now, task[p].key).ret
            = Cardinality(SeedMembers(task[p].key)
                          \cup Range(task[p].args) \cup Range(task[q].args))
       /\ Range(SMembers(metaCF, dataCF, now, task[p].key).out)
            = SeedMembers(task[p].key) \cup Range(task[p].args) \cup Range(task[q].args)

C8_Witness ==
  /\ DisjointAdds("p1", "p2") /\ AllDone
  /\ seed[task["p1"].key] = <<>>
  /\ thread["p1"].ret = 1 /\ thread["p2"].ret = 1
  /\ SCard(metaCF, now, task["p1"].key).ret = 2

\* C9: whatever two calls run concurrently (SMOVE and RENAME in either key
\* order or on one key twice, SADD, readers), each of them returns.
C9_EveryCallReturns == \A p \in Procs : <>Done(p)

C9_Witness ==
  /\ AllDone
  /\ task["p1"].name = "SMOVE" /\ task["p1"].key = "k1" /\ task["p1"].key2 = "k2"
  /\ task["p2"].name = "RENAME" /\ task["p2"].key = "k2" /\ task["p2"].key2 = "k1"
  /\ thread["p1"].status = "OK" /\ thread["p2"].status = "OK"

\* Thread p moves a member that the source held and the destination did not,
\* and thread q reads the two keys under one snapshot.
MoveWatched(p, q) ==
  /\ task[p].name = "SMOVE" /\ task[p].key # task[p].key2
  /\ task[p].args[1] \in SeedMembers(task[p].key)
  /\ task[p].args[1] \notin SeedMembers(task[p].key2)
  /\ IsReader(task[q])
  /\ Range(task[q].args) = {task[p].key, task[p].key2}

\* C10: a snapshot read concurrent with SMOVE(src, dst, m), src # dst, m in
\* src and not in dst before, finds m in exactly one of the two Sets: SUNION
\* returns it and SINTER does not.
C10_MoveIsAtomicToReaders ==
  \A p \in Procs, q \in Procs :
    (MoveWatched(p, q) /\ Done(q))
    => /\ thread[q].status = "OK"
       /\ task[q].name = "SUNION" => task[p].args[1] \in Range(thread[q].out)
       /\ task[q].name = "SINTER" => task[p].args[1] \notin Range(thread[q].out)

\* The reader returned while the SMOVE was between its reads and its return.
C10_Witness ==
  /\ MoveWatched("p1", "p2") /\ Done("p2")
  /\ task["p2"].name = "SUNION"
  /\ thread["p1"].pc = "commit" /\ thread["p1"].groups = <<>> /\ thread["p1"].status = "OK"
  /\ task["p1"].args[1] \in Range(thread["p2"].out)

\* What a key holds in a view of the store: the members SMEMBERS finds.
Contents(view, key) ==
  LET r == SMembers(view.meta, view.data, now, key)
  IN  IF r.status = "OK" THEN Range(r.out) ELSE {}
\* The set algebra a reader stands for, over the contents of its two keys.
Algebra(t, view) ==
  LET A == Contents(view, t.args[1])
      B == Contents(view, t.args[2])
  IN  CASE t.name = "SDIFF" -> A \ B
        [] t.name = "SINTER" -> A \cap B
        [] t.name = "SUNION" -> A \cup B

\* C11: SDIFF, SINTER and SUNION return the set algebra over what their keys
\* held when the snapshot was opened, whatever writers commit meanwhile.
C11_ReadersSeeOneInstant ==
  [][\A p \in Procs :
       (IsReader(task[p]) /\ thread[p].pc = "iterate" /\ thread'[p].pc = "done")
       => /\ thread'[p].status = "OK"
          /\ Range(thread'[p].out) = Algebra(task[p], thread[p].snapshot)]_vars

\* A reader between its two loops whose snapshot a writer has overtaken.
C11_Witness ==
  \E p \in Procs :
    /\ IsReader(task[p]) /\ thread[p].pc = "iterate"
    /\ Algebra(task[p], thread[p].snapshot) # {}
    /\ Algebra(task[p], thread[p].snapshot)
         # Algebra(task[p], [meta |-> metaCF, data |-> dataCF])

\* A key that holds a value of another type, not expired.
LiveOther(key) ==
  MetaOf(key).type \notin {"None", "Set"} /\ ~IsStale(MetaOf(key), now)
Refused(r) == r.status = "WRONGTYPE" /\ r.batch = <<>>
RandCounts == (0 - MaxCount)..MaxCount
Cursors == 0..1
ScanCounts == 1..MaxCount
StartPoints == {""} \cup Members

\* C12: on a key that holds a live value of another type every single-key
\* Set operation returns WRONGTYPE and writes nothing, SMOVE included whether
\* the key is its source or the destination of a member its source holds.
C12_WrongTypeIsRefused ==
  \A key \in Keys :
    LiveOther(key)
    => /\ \A members \in MemberLists :
            /\ Refused(SAdd(metaCF, dataCF, now, key, members))
            /\ Refused(SRem(metaCF, dataCF, now, key, members))
       /\ Refused(SCard(metaCF, now, key))
       /\ Refused(SMembers(metaCF, dataCF, now, key))
       /\ \A member \in Members : Refused(SIsmember(metaCF, dataCF, now, key, member))
       /\ \A cnt \in PopCounts : Refused(SPop(metaCF, dataCF, now, key, cnt, {}))
       /\ \A count \in RandCounts :
            \A d \in SRandDraws(0, count) :
              Refused(SRandmember(metaCF, dataCF, now, key, count, d.targets, d.fpe))
       /\ \A cursor \in Cursors, count \in ScanCounts, start_point \in StartPoints :
            Refused(SScan(metaCF, dataCF, now, key, cursor, count, start_point))
       /\ \A other \in Keys, member \in Members :
            /\ Refused(SMove(metaCF, dataCF, now, key, other, member))
            /\ (LiveSet(MetaOf(other), now)
                /\ SIsmember(metaCF, dataCF, now, other, member).ret = 1)
               => Refused(SMove(metaCF, dataCF, now, other, key, member))

SetOps == {"SADD", "SREM", "SMOVE", "SPOP", "SDIFFSTORE", "SINTERSTORE", "SUNIONSTORE"}
StoreOps == {"SDIFFSTORE", "SINTERSTORE", "SUNIONSTORE"}

\* C13: a call of a Set operation leaves the type of every live meta as it
\* was, and a *STORE onto a live key of another type returns WRONGTYPE and
\* leaves that key's meta as it was.
C13_LiveTypeNeverChanges ==
  [][\A key \in Keys :
       (last' # last /\ last'.op \in SetOps /\ LiveOther(key))
       => /\ MetaOf(key)' = MetaOf(key)
          /\ (last'.op \in StoreOps /\ last'.key = key) => last'.status = "WRONGTYPE"]_vars

\* C14: SDIFF, SINTER, SUNION and their *STORE forms return WRONGTYPE when a
\* key of keys[] holds a live value of another type, wherever it stands in
\* the list and whatever the other keys hold.
C14_WrongTypeAnywhereInKeys ==
  \A keys \in KeyLists :
    (\E i \in DOMAIN keys : LiveOther(keys[i]))
    => /\ SDiff(metaCF, dataCF, now, keys).status = "WRONGTYPE"
       /\ SInter(metaCF, dataCF, now, keys).status = "WRONGTYPE"
       /\ SUnion(metaCF, dataCF, now, keys).status = "WRONGTYPE"
       /\ \A destination \in Keys :
            /\ Refused(SDiffstore(metaCF, dataCF, now, destination, keys))
            /\ Refused(SInterstore(metaCF, dataCF, now, destination, keys))
            /\ Refused(SUnionstore(metaCF, dataCF, now, destination, keys))

NoMetas == [s \in MetaSlots |-> NoMeta]
\* What SCARD, SMEMBERS and SISMEMBER answer for a key.
Reads(mcf, dcf, t, key) ==
  <<SCard(mcf, t, key), SMembers(mcf, dcf, t, key),
    [member \in Members |-> SIsmember(mcf, dcf, t, key, member)]>>
Expired(mv, t) == mv.type = "Set" /\ mv.etime # 0 /\ mv.etime <= t

\* C16: a Set whose expiration time has come reads as a key that does not
\* exist, and the reads of a Set with no expiration time do not change when
\* only the clock advances.
C16_ExpiredReadsAsAbsent ==
  [][/\ \A key \in Keys :
          Expired(MetaOf(key)', now')
          => Reads(metaCF', dataCF', now', key) = Reads(NoMetas, {}, now', key)
     /\ \A key \in Keys :
          (now' # now /\ MetaOf(key).type = "Set" /\ MetaOf(key).etime = 0)
          => Reads(metaCF', dataCF', now', key) = Reads(metaCF, dataCF, now, key)]_vars

\* A Set with a member record whose expiration time has come.
C16_Witness ==
  \E key \in Keys :
    /\ Expired(MetaOf(key), now) /\ MetaOf(key).count > 0
    /\ PrefixMembers(dataCF, key, MetaOf(key).version) # {}

\* What SSCAN answers for a key, per cursor, count and resume point.
Scans(mcf, dcf, t, key) ==
  [a \in Cursors \X ScanCounts \X StartPoints |->
     SScan(mcf, dcf, t, key, a[1], a[2], a[3])]

\* C17: a Set meta whose count is 0 reads as a key with no meta: SCARD,
\* SISMEMBER, SMEMBERS and SSCAN return the same status and result.
C17_EmptyReadsAsAbsent ==
  \A key \in Keys :
    (MetaOf(key).type = "Set" /\ ~IsStale(MetaOf(key), now) /\ MetaOf(key).count = 0)
    => /\ Reads(metaCF, dataCF, now, key) = Reads(NoMetas, {}, now, key)
       /\ Scans(metaCF, dataCF, now, key) = Scans(NoMetas, {}, now, key)

\* The members of a key's Set: those under its version while the Set is
\* live, none otherwise.
Held(mcf, dcf, t, key) ==
  IF LiveSet(mcf[BaseMetaKeyEncode(key)], t)
  THEN PrefixMembers(dcf, key, mcf[BaseMetaKeyEncode(key)].version)
  ELSE {}

\* C18: SADD returns the number of distinct members of its list that the Set
\* did not hold, the Set then holds those as well, and SCARD has grown by
\* the number returned.
C18_SaddCountsNewMembers ==
  [][\A key \in Keys, members \in MemberLists :
       (SAddCall(key, members) /\ last'.status = "OK")
       => /\ last'.ret = Cardinality(Range(members) \ Held(metaCF, dataCF, now, key))
          /\ Held(metaCF', dataCF', now', key)
               = Held(metaCF, dataCF, now, key) \cup Range(members)
          /\ SCard(metaCF', now', key).ret = SCard(metaCF, now, key).ret + last'.ret]_vars

\* C19: SREM of a member that the SADD just before it added leaves SISMEMBER
\* at 0 and SCARD one less than after the SADD; SREM of a member the Set
\* does not hold returns 0 and leaves the store as it was.
C19_SremUndoesSadd ==
  [][\A key \in Keys, member \in Members :
       (last'.op = "SREM" /\ last'.key = key /\ SRemCall(key, <<member>>))
       => /\ (/\ last.op = "SADD" /\ last.key = key /\ last.status = "OK"
              /\ SetsMemberKeyEncode(key, MetaOf(key).version, member) \in last.wrote
              /\ SIsmember(metaCF, dataCF, now, key, member).ret = 1)
             => /\ last'.status = "OK" /\ last'.ret = 1
                /\ SIsmember(metaCF', dataCF', now', key, member).ret = 0
                /\ SCard(metaCF', now', key).ret = SCard(metaCF, now, key).ret - 1
          /\ (last'.status = "OK"
              /\ SIsmember(metaCF, dataCF, now, key, member).ret = 0)
             => /\ last'.ret = 0
                /\ metaCF' = metaCF /\ dataCF' = dataCF]_vars

\* SREM took one member out of a Set of two.
C19_Witness ==
  /\ last.op = "SREM" /\ last.status = "OK" /\ last.ret = 1
  /\ SCard(metaCF, now, last.key).ret = 1
  /\ Cardinality(Held(metaCF, dataCF, now, last.key)) = 1

NoRepeats(seq) == Cardinality(Range(seq)) = Len(seq)

\* C20: for two keys that hold no value of another type, SUNION returns each
\* member that SDIFF(A, B), SINTER(A, B) or SDIFF(B, A) returns and no other,
\* and no member is returned by two of the three or twice by one.
C20_UnionIsDiffInterDiff ==
  \A A \in Keys, B \in Keys :
    (~LiveOther(A) /\ ~LiveOther(B))
    => LET U == SUnion(metaCF, dataCF, now, <<A, B>>)
           D == SDiff(metaCF, dataCF, now, <<A, B>>)
           I == SInter(metaCF, dataCF, now, <<A, B>>)
           E == SDiff(metaCF, dataCF, now, <<B, A>>)
       IN  /\ U.status = "OK" /\ D.status = "OK" /\ I.status = "OK" /\ E.status = "OK"
           /\ Range(U.out) = Range(D.out) \cup Range(I.out) \cup Range(E.out)
           /\ Range(D.out) \cap Range(I.out) = {}
           /\ Range(D.out) \cap Range(E.out) = {}
           /\ Range(I.out) \cap Range(E.out) = {}
           /\ NoRepeats(U.out) /\ NoRepeats(D.out) /\ NoRepeats(I.out) /\ NoRepeats(E.out)

\* Two Sets that share one member while one of them holds another.
C20_Witness ==
  \E A \in Keys, B \in Keys :
    /\ LiveSet(MetaOf(A), now) /\ LiveSet(MetaOf(B), now)
    /\ SDiff(metaCF, dataCF, now, <<A, B>>).out # <<>>
    /\ SInter(metaCF, dataCF, now, <<A, B>>).out # <<>>
    /\ Len(SUnion(metaCF, dataCF, now, <<A, B>>).out) = 2

Now == [meta |-> metaCF, data |-> dataCF]
NoOtherType(keys) == \A i \in DOMAIN keys : ~LiveOther(keys[i])

\* C21: over keys that hold no live value of another type, SDIFF returns the
\* members of keys[0] that no later key holds, SINTER those that every key
\* holds and SUNION those that some key holds, each once; an absent or
\* expired key holds none.
C21_ReadersComputeSetAlgebra ==
  \A keys \in KeyLists :
    NoOtherType(keys)
    => LET D == SDiff(metaCF, dataCF, now, keys)
           I == SInter(metaCF, dataCF, now, keys)
           U == SUnion(metaCF, dataCF, now, keys)
       IN  /\ D.status = "OK" /\ I.status = "OK" /\ U.status = "OK"
           /\ NoRepeats(D.out) /\ NoRepeats(I.out) /\ NoRepeats(U.out)
           /\ Range(D.out) = Contents(Now, keys[1])
                               \ UNION {Contents(Now, keys[i]) : i \in 2..Len(keys)}
           /\ Range(I.out) = {m \in Members : \A i \in DOMAIN keys : m \in Contents(Now, keys[i])}
           /\ Range(U.out) = UNION {Contents(Now, keys[i]) : i \in DOMAIN keys}

\* Two Sets, one holding a and b and the other b alone.
C21_Witness ==
  \E keys \in KeyLists :
    /\ Len(keys) = 2 /\ keys[1] # keys[2]
    /\ \A i \in DOMAIN keys : LiveSet(MetaOf(keys[i]), now)
    /\ SDiff(metaCF, dataCF, now, keys).out = <<"a">>
    /\ SInter(metaCF, dataCF, now, keys).out = <<"b">>
    /\ SUnion(metaCF, dataCF, now, keys).out = <<"a", "b">>

\* What the store holds after the step.
After == [meta |-> metaCF', data |-> dataCF']
\* The step is the call 'op' on 'key' and returned OK.
Did(op, key) == last'.op = op /\ last'.key = key /\ last'.status = "OK"

\* C22: after SDIFFSTORE or SINTERSTORE returns OK on a destination that held
\* no live value of another type, SMEMBERS(dst) is what SDIFF or SINTER of the
\* keys returned before the call and SCARD(dst) is the number the call
\* returned.
C22_StoreHoldsExactlyTheResult ==
  [][\A destination \in Keys, keys \in KeyLists :
       /\ (Did("SDIFFSTORE", destination) /\ ~LiveOther(destination)
           /\ SDiffstoreCall(destination, keys))
          => /\ Contents(After, destination)
                  = Range(SDiff(metaCF, dataCF, now, keys).out)
             /\ SCard(metaCF', now, destination).ret = last'.ret
             /\ last'.ret = Cardinality(Contents(After, destination))
       /\ (Did("SINTERSTORE", destination) /\ ~LiveOther(destination)
           /\ SInterstoreCall(destination, keys))
          => /\ Contents(After, destination)
                  = Range(SInter(metaCF, dataCF, now, keys).out)
             /\ SCard(metaCF', now, destination).ret = last'.ret
             /\ last'.ret = Cardinality(Contents(After, destination))]_vars

\* The members and the cardinality of a key before and after the step.
HeldBefore(key) == Held(metaCF, dataCF, now, key)
HeldAfter(key) == Held(metaCF', dataCF', now, key)
CardBefore(key) == SCard(metaCF, now, key).ret
CardAfter(key) == SCard(metaCF', now, key).ret

\* C23: SMOVE between two different keys that hold no live value of another
\* type: a member the source holds leaves it and is in the destination
\* afterwards, the call returns 1, the source's count drops by 1 and the
\* destination's grows by 1 exactly when it did not hold the member; otherwise
\* the call returns 0 and writes nothing.
C23_SmoveMovesOneMember ==
  [][\A source \in Keys, destination \in Keys, member \in Members :
       (/\ last'.op = "SMOVE" /\ last'.key = source /\ last'.key2 = destination
        /\ source # destination
        /\ ~LiveOther(source) /\ ~LiveOther(destination)
        /\ SMoveCall(source, destination, member))
       => IF member \in HeldBefore(source)
          THEN /\ last'.status = "OK" /\ last'.ret = 1
               /\ member \notin HeldAfter(source)
               /\ CardAfter(source) = CardBefore(source) - 1
               /\ member \in HeldAfter(destination)
               /\ CardAfter(destination)
                    = CardBefore(destination)
                      + (IF member \in HeldBefore(destination) THEN 0 ELSE 1)
          ELSE /\ last'.ret = 0
               /\ UNCHANGED store]_vars

\* C24: after RENAME(key, newkey) returns OK the meta of newkey carries the
\* expiration time the meta of key carried before the call (0 when it had
\* none), whatever the meta of newkey carried.
C24_RenameCarriesExpiration ==
  [][\A key \in Keys, newkey \in Keys :
       (Did("RENAME", key) /\ last'.key2 = newkey /\ RenameCall(key, newkey))
       => MetaOf(newkey)'.etime = MetaOf(key).etime]_vars

\* The call returned 'status' and staged no write.
Declined(r, status) == r.status = status /\ r.batch = <<>>

\* C25: RENAMENX onto a newkey that holds a live Set, key itself included,
\* returns the non-OK status that stands for 'already exists' and writes
\* nothing; RENAME and RENAMENX of a key that is absent, expired or of count
\* 0 return NotFound and write nothing.
C25_RenameDeclines ==
  \A key \in Keys, newkey \in Keys :
    (MetaOf(key).type \in {"None", "Set"} /\ MetaOf(newkey).type \in {"None", "Set"})
    => /\ (LiveSet(MetaOf(key), now) /\ LiveSet(MetaOf(newkey), now))
          => Declined(SetsRenamenx(metaCF, now, key, newkey), "Corruption")
       /\ ~LiveSet(MetaOf(key), now)
          => /\ Declined(SetsRename(metaCF, now, key, newkey), "NotFound")
             /\ Declined(SetsRenamenx(metaCF, now, key, newkey), "NotFound")
C25_Witness ==
  /\ last.op = "RENAMENX" /\ last.status = "Corruption"
  /\ last.key # last.key2
  /\ last.wrote = {}
  /\ \A key \in Keys : LiveSet(MetaOf(key), now)

\* C26: RENAME of a key that holds a live Set onto itself returns OK and
\* leaves the key holding the same members with the same count.
C26_RenameOntoItselfKeepsTheSet ==
  [][\A key \in Keys :
       (/\ last'.op = "RENAME" /\ last'.key = key /\ last'.key2 = key
        /\ LiveSet(MetaOf(key), now)
        /\ RenameCall(key, key))
       => /\ last'.status = "OK"
          /\ HeldAfter(key) = HeldBefore(key)
          /\ CardAfter(key) = CardBefore(key)]_vars

IsRename(t) == t.name \in {"RENAME", "RENAMENX"} /\ t.key # t.key2

\* C27: every write that RENAME or RENAMENX between two different keys makes
\* to the store both places the source meta under newkey and ends the life
\* of key: no state has newkey carrying the renamed Set while key is live.
C27_RenameWritesTogether ==
  [][\A p \in Procs :
       (IsRename(task[p]) /\ Commit(p))
       => /\ MetaOf(task[p].key2)' = MetaOf(task[p].key)
          /\ ~LiveSet(MetaOf(task[p].key)', now)]_vars

\* C28: when a read, a write or the commit inside a call returns a status
\* other than OK and NotFound, the call returns that status and the store is
\* as it was before the call.
C28_FailureIsReturnedAndNothingWritten ==
  [][FaultStep => (last'.status = "IOError" /\ UNCHANGED store)]_vars

\* The draws of SPOP(key, cnt) on a Set of a count within the bound.
DrawsFor(key, cnt) ==
  IF MetaOf(key).count <= MaxCount THEN SPopDraws(MetaOf(key).count, cnt) ELSE {}

\* C29: SPOP(key, cnt) on a live Set of count at most cnt, count equal to cnt
\* included, returns every member the Set holds, leaves no member record
\* under the Set's version and leaves the key without a meta.
C29_SpopOfAllDeletesTheKey ==
  [][\A key \in Keys, cnt \in 1..MaxCount :
       \A sets_index \in DrawsFor(key, cnt) :
         (/\ last'.op = "SPOP" /\ last'.key = key
          /\ LiveSet(MetaOf(key), now) /\ MetaOf(key).count <= cnt
          /\ SPopCall(key, cnt, sets_index))
         => /\ last'.status = "OK"
            /\ Range(SPop(metaCF, dataCF, now, key, cnt, sets_index).out) = HeldBefore(key)
            /\ PrefixMembers(dataCF', key, MetaOf(key).version) = {}
            /\ MetaOf(key)' = NoMeta]_vars

\* C30: SPOP(key, cnt) on a live Set with 0 < cnt < count returns cnt
\* different members the Set held, removes those and no other, and lowers
\* the count by cnt.
C30_SpopTakesExactlyCnt ==
  [][\A key \in Keys, cnt \in 1..MaxCount :
       \A sets_index \in DrawsFor(key, cnt) :
         (/\ last'.op = "SPOP" /\ last'.key = key
          /\ LiveSet(MetaOf(key), now) /\ cnt < MetaOf(key).count
          /\ SPopCall(key, cnt, sets_index))
         => LET out == SPop(metaCF, dataCF, now, key, cnt, sets_index).out
            IN  /\ last'.status = "OK"
                /\ Len(out) = cnt /\ NoRepeats(out)
                /\ Range(out) \subseteq HeldBefore(key)
                /\ HeldAfter(key) = HeldBefore(key) \ Range(out)
                /\ CardAfter(key) = CardBefore(key) - cnt]_vars

\* The draws of SRANDMEMBER(key, count) on a Set of a count within the bound.
RandDrawsFor(key, count) ==
  IF MetaOf(key).count <= MaxCount THEN SRandDraws(MetaOf(key).count, count) ELSE {}

\* C31: SRANDMEMBER stages no write; on a live Set of count c it returns
\* min(count, c) different members when count > 0, -count members when
\* count < 0 and none when count = 0, each of them a member the Set holds.
C31_SrandmemberReturnsMembers ==
  \A key \in Keys, count \in RandCounts :
    LiveSet(MetaOf(key), now)
    => \A d \in RandDrawsFor(key, count) :
         LET r == SRandmember(metaCF, dataCF, now, key, count, d.targets, d.fpe)
             c == MetaOf(key).count
         IN  /\ r.status = "OK" /\ r.batch = <<>>
             /\ Len(r.out) = (IF count > 0 THEN (IF count <= c THEN count ELSE c)
                              ELSE 0 - count)
             /\ count > 0 => NoRepeats(r.out)
             /\ Range(r.out) \subseteq Held(metaCF, dataCF, now, key)

ReadOnlyOps ==
  {"SCARD", "SISMEMBER", "SMEMBERS", "SRANDMEMBER", "SDIFF", "SINTER", "SUNION", "SSCAN"}

\* C32: no record lock is ever held by a read-only call, so no call that
\* waits for a record lock waits for a read.
C32_ReadsTakeNoLock ==
  \A key \in Keys : locks[key] # Free => task[locks[key]].name \notin ReadOnlyOps

C34_NoIteratorOutlivesTheCall ==
  /\ \A key \in Keys, cnt \in PopCounts : SPopOpenIterators(metaCF, now, key, cnt) = 0
  /\ \A keys \in KeyLists : keys # <<>> => SDiffOpenIterators(metaCF, now, keys) = 0

\* The calls of one scan: from 'cursor', each next_cursor passed back, until
\* 0 comes back or 'fuel' calls were made.
RECURSIVE ScanRounds(_, _, _, _, _, _, _, _, _)
ScanRounds(mcf, dcf, t, key, pattern, count, cursor, points, fuel) ==
  IF fuel = 0 THEN <<>>
  ELSE LET r == SScanPattern(mcf, dcf, t, key, cursor, pattern, count, points)
       IN  <<[cursor |-> cursor, r |-> r]>> \o
           (IF r.next_cursor = 0 THEN <<>>
            ELSE ScanRounds(mcf, dcf, t, key, pattern, count, r.next_cursor, r.points,
                            fuel - 1))
RECURSIVE Flatten(_)
Flatten(seqs) == IF seqs = <<>> THEN <<>> ELSE Head(seqs) \o Flatten(Tail(seqs))
ScanOf(key, pattern, count) ==
  ScanRounds(metaCF, dataCF, now, key, pattern, count, 0,
             scan_cursors_store[<<key, pattern>>], Len(MemberOrder) + 1)
\* The members the walk of the scan covers: all of them, or those under the
\* literal prefix of a tail wildcard.
Covered(key, pattern) ==
  InOrder({m \in PrefixMembers(dataCF, key, MetaOf(key).version) :
             isTailWildcard(pattern)
               => starts_with(Bytes(m), SubSeq(pattern, 1, Len(pattern) - 1))})
ScanIsComplete(key, pattern, count) ==
  LET rounds == ScanOf(key, pattern, count)
      got == Flatten([i \in DOMAIN rounds |-> rounds[i].r.members])
      all == Covered(key, pattern)
  IN  /\ rounds[Len(rounds)].r.next_cursor = 0
      /\ \A i, j \in DOMAIN got : got[i] = got[j] => i = j
      /\ Range(got) = {m \in PrefixMembers(dataCF, key, MetaOf(key).version) :
                         StringMatch(pattern, Bytes(m))}
      /\ \A i \in DOMAIN rounds :
           LET r == rounds[i].r
           IN  /\ r.status = "OK"
               /\ r.next_cursor # 0 <=> i * count < Len(all)
               /\ r.next_cursor # 0 =>
                    /\ r.next_cursor = rounds[i].cursor + count
                    /\ r.points[r.next_cursor] = Bytes(all[i * count + 1])

\* C35: on a live Set that stays as it is, a scan from cursor 0 with any
\* pattern and a count of at least 1 ends with next_cursor 0, returns exactly
\* the members matching the pattern, each once, and hands out cursor + count
\* with the next member kept as resume point exactly while entries remain.
C35_ScanReturnsEveryMatchOnce ==
  \A key \in Keys, pattern \in Patterns, count \in 1..MaxCount :
    LiveSet(MetaOf(key), now) => ScanIsComplete(key, pattern, count)

\* C36: an SPOP that returns OK lowers the count of its Set by the number of
\* member records it deletes, whatever cnt is; with cnt of 0 or less on a
\* live Set it changes neither the members nor the count.
C36_SpopCountFollowsDeletes ==
  [][\A key \in Keys, cnt \in PopCounts :
       \A sets_index \in DrawsFor(key, cnt) :
         (/\ Did("SPOP", key)
          /\ LiveSet(MetaOf(key), now)
          /\ SPopCall(key, cnt, sets_index))
         => /\ MetaOf(key)'.count = MetaOf(key).count - Cardinality(dataCF \ dataCF')
            /\ cnt <= 0 => UNCHANGED store]_vars

\* The member records under the prefix (key, version the meta of key has).
RecordsOf(key) == {dk \in dataCF : dk[1] = key /\ dk[2] = MetaOf(key).version}

\* C37: SPOP deletes and returns, and SRANDMEMBER returns, only members whose
\* records lie under the key and the version its meta has.
C37_OnlyRecordsOfTheKey ==
  [][/\ \A key \in Keys, cnt \in PopCounts :
          \A sets_index \in DrawsFor(key, cnt) :
            (Did("SPOP", key) /\ SPopCall(key, cnt, sets_index))
            => /\ (dataCF \ dataCF') \subseteq RecordsOf(key)
               /\ Range(SPop(metaCF, dataCF, now, key, cnt, sets_index).out)
                    \subseteq PrefixMembers(dataCF, key, MetaOf(key).version)
     /\ \A key \in Keys, count \in RandCounts :
          \A d \in RandDrawsFor(key, count) :
            LET r == SRandmember(metaCF, dataCF, now, key, count, d.targets, d.fpe)
            IN  r.status = "OK"
                => Range(r.out) \subseteq PrefixMembers(dataCF, key, MetaOf(key).version)]_vars

\* A Set meta that has not expired and has count 0.
EmptySet(key) ==
  MetaOf(key).type = "Set" /\ ~IsStale(MetaOf(key), now) /\ MetaOf(key).count = 0

\* C38: on a Set whose meta has count 0, SPOP with any cnt and SRANDMEMBER
\* with any count return normally with no member; no position is drawn
\* modulo zero.
C38_EmptySetIsHandled ==
  \A key \in Keys :
    EmptySet(key)
    => /\ \A cnt \in PopCounts :
            \A sets_index \in SPopDraws(0, cnt) :
              LET r == SPop(metaCF, dataCF, now, key, cnt, sets_index)
              IN  r.status \in {"OK", "NotFound"} /\ r.out = <<>>
       /\ \A count \in RandCounts :
            \A d \in SRandDraws(0, count) :
              LET r == SRandmember(metaCF, dataCF, now, key, count, d.targets, d.fpe)
              IN  ~d.fpe /\ r.status \in {"OK", "NotFound"} /\ r.out = <<>>

\* C39: when the destination of SDIFFSTORE, SINTERSTORE or SUNIONSTORE is
\* one of the keys, the result is what SDIFF, SINTER or SUNION of the keys
\* returned before the call, and the destination holds exactly that result
\* afterwards.
C39_DestinationAmongTheKeys ==
  [][\A destination \in Keys, keys \in KeyLists :
       (\E i \in DOMAIN keys : keys[i] = destination)
       => /\ (Did("SDIFFSTORE", destination) /\ SDiffstoreCall(destination, keys))
             => /\ last'.ret = Len(SDiff(metaCF, dataCF, now, keys).out)
                /\ Contents(After, destination)
                     = Range(SDiff(metaCF, dataCF, now, keys).out)
          /\ (Did("SINTERSTORE", destination) /\ SInterstoreCall(destination, keys))
             => /\ last'.ret = Len(SInter(metaCF, dataCF, now, keys).out)
                /\ Contents(After, destination)
                     = Range(SInter(metaCF, dataCF, now, keys).out)
          /\ (Did("SUNIONSTORE", destination) /\ SUnionstoreCall(destination, keys))
             => /\ last'.ret = Len(SUnion(metaCF, dataCF, now, keys).out)
                /\ Contents(After, destination)
                     = Range(SUnion(metaCF, dataCF, now, keys).out)]_vars

\* C40: SADD and SREM on a live Set leave the version and the expiration time
\* of its meta as they were; an SADD whose members are all in the Set already
\* stages no write and changes nothing.
C40_AddRemKeepVersionAndExpiry ==
  [][\A key \in Keys, members \in MemberLists :
       /\ (last'.op = "SADD" /\ last'.key = key /\ LiveSet(MetaOf(key), now)
           /\ SAddCall(key, members))
          => /\ MetaOf(key)'.version = MetaOf(key).version
             /\ MetaOf(key)'.etime = MetaOf(key).etime
             /\ Range(members) \subseteq PrefixMembers(dataCF, key, MetaOf(key).version)
                => /\ SAdd(metaCF, dataCF, now, key, members).batch = <<>>
                   /\ last'.status = "OK" /\ last'.ret = 0
                   /\ UNCHANGED store
       /\ (last'.op = "SREM" /\ last'.key = key /\ LiveSet(MetaOf(key), now)
           /\ SRemCall(key, members))
          => /\ MetaOf(key)'.version = MetaOf(key).version
             /\ MetaOf(key)'.etime = MetaOf(key).etime]_vars
\* An SADD of members the Set held returned 0 on a Set that carries an
\* expiration time and is still live.
C40_Witness ==
  /\ last.op = "SADD" /\ last.status = "OK" /\ last.ret = 0 /\ last.wrote = {}
  /\ LiveSet(MetaOf(last.key), now)
  /\ MetaOf(last.key).etime # 0
  /\ PrefixMembers(dataCF, last.key, MetaOf(last.key).version) # {}

====
